---- MODULE Spec2Model ----
(***************************************************************************)
(* RAG Explorer (GraphRAG vs vector RAG): the document registry, the       *)
(* ingestion-dedup pipeline, the dual-retrieval query orchestrator and the *)
(* tenant reset coordinator.                                               *)
(*                                                                         *)
(* The registry table (keys, md5 index), the storage path, the fingerprint *)
(* and the tenant hashing are taken from infra/lib/graphrag-stack.ts and   *)
(* DEPLOYMENT.md.  The two Lambda handlers (document-processor and         *)
(* query-handler) are not part of the source tree; their steps follow      *)
(* sections 4.1-4.4 of the specification.                                  *)
(***************************************************************************)
EXTENDS Integers, FiniteSets, Sequences, TLC

\* ------------------------------------------------------------------ bounds

\* Requests (upload, query, reset, delete) issued in one behaviour.
MaxRequests == 3

\* Requests issued in one behaviour of the fair specification.
MaxFairRequests == 2

\* Invocations that can be in flight at the same time.
Procs == {1, 2}

\* Cognito identity ids: one fixed format, so all of one length.
Users == {"u1", "u2"}

\* Tenant ids are free text typed by the user.  The first two have the same
\* md5(tenant_id)[:10]; the third is a prefix of the first.
Tenants == {"tenant735165", "tenant1510540", "tenant7351"}

\* The files a user picks in the upload dialog: a text file, the same file after
\* an edit, a Markdown copy of it, a PDF, and an empty text file.
Files ==
    {[fileName |-> "a.txt", content |-> "x"],
     [fileName |-> "a.txt", content |-> "65x"],
     [fileName |-> "b.md",  content |-> "x"],
     [fileName |-> "c.pdf", content |-> "x"],
     [fileName |-> "a.txt", content |-> ""]}

\* The cast of the concurrent specification.
ConcurrentUsers == {"u1"}

ConcurrentTenants == {"tenant735165", "tenant7351"}

\* Chunk counts Index can report.
ChunkCounts == {1, 2}

\* ------------------------------------------------------- pure definitions

\* The file extension of the file names of the model.
Extension(fileName) ==
    CASE fileName = "a.txt" -> ".txt"
      [] fileName = "b.md"  -> ".md"
      [] fileName = "c.pdf" -> ".pdf"

\* A validation that lets PDF through.
AcceptedWithPdf(fileName, content) ==
    /\ content # ""
    /\ Extension(fileName) \in {".txt", ".md", ".pdf"}

\* Ingest step 1: only plain text and Markdown, never empty.
Accepted(fileName, content) ==
    /\ content # ""
    /\ Extension(fileName) \in {".txt", ".md"}

\* md5(user_id + tenant_id + file_content): the digest of the concatenation,
\* represented by the concatenated string itself (md5 taken as injective on it).
Fingerprint(userId, tenantId, content) == userId \o tenantId \o content

\* A storage path that leaves the tenant out.
S3PathWithoutTenant(userId, tenantId, fileName) ==
    "private/" \o userId \o "/documents/" \o fileName

\* private/{user_id}/{tenant_id}/documents/{fileName}
S3Path(userId, tenantId, fileName) ==
    "private/" \o userId \o "/" \o tenantId \o "/documents/" \o fileName

\* md5(tenant_id)[:10], the tenant id handed to the toolkit.
\*   md5("tenant735165")  = 95f14deddb...
\*   md5("tenant1510540") = 95f14deddb...
\*   md5("tenant7351")    = 97fc11ac65...
\*   md5("default")       = c21f969b5f...
\*   md5(" tenant7351")   = cc3596db43...
\*   md5("&tenant7351")   = ec8c066409...
\*   md5("")              = d41d8cd98f...
HashedTenant(tenantId) ==
    CASE tenantId = "tenant735165"  -> "95f14deddb"
      [] tenantId = "tenant1510540" -> "95f14deddb"
      [] tenantId = "tenant7351"    -> "97fc11ac65"
      [] tenantId = "default"       -> "c21f969b5f"
      [] tenantId = " tenant7351"   -> "cc3596db43"
      [] tenantId = "&tenant7351"   -> "ec8c066409"
      [] tenantId = ""              -> "d41d8cd98f"

\* The answer of a failed retrieval branch: empty result, zero sources.
Sentinel == ""

\* The answer of a retrieval branch that succeeded.
Answer == "answer"

\* ------------------------------------------------------------------ state

VARIABLES
    registry,   \* rows of the DocumentRegistryTable
    storage,    \* objects of the documents bucket: [path, content]
    ks,         \* documents held by the Knowledge Store: [key, tenant, content]
    req,        \* the invocation running in each slot, with its locals and its result
    started,    \* requests issued so far
    succeeded,  \* history: uploads indexed with success since the last Delete or Reset
    wiped,      \* history: (tenant, md5) of Indexed rows removed by a successful Reset
    md5Index,   \* rows as the md5-index shows them: the table at its last propagation
    ui,         \* React state of the GraphRAGChat page of one signed-in user
    page,       \* the chat panes, the results and the upload history of that page
    auth,       \* React state of App: the authentication gate
    graphView,  \* GraphVisualization: its tenantId prop, its data, its requests
    chat        \* ChatProvider: the message list and localStorage

vars ==
    <<registry, storage, ks, req, started, succeeded, wiped, md5Index, ui,
      page, auth, graphView, chat>>

\* The variables of the Lambdas, of the tables and of the tenant field.
backend == <<registry, storage, ks, req, started, succeeded, wiped, md5Index, ui>>

\* useState('default') for tenantId and tenantInput, useState([]) for
\* storedDocuments; chosen is history: the user has pressed Set or picked a
\* tenant in the Select.
UiInit ==
    [tenantId |-> "default", tenantInput |-> "default", storedDocuments |-> {},
     chosen |-> FALSE]

\* The useState initial values of GraphRAGChat; asked and batches count the
\* questions sent and the selections uploaded, nextId numbers the history entries,
\* resetOutcome is how the last handleResetGraph ended.
PageInit ==
    [graphMessages |-> <<>>, vectorMessages |-> <<>>,
     loading |-> FALSE, error |-> FALSE,
     files |-> <<>>, uploading |-> FALSE,
     resetting |-> FALSE, showResetModal |-> FALSE,
     tenantId |-> "default", tenantInput |-> "default",
     lastVectorChunks |-> {}, lastGraphNodes |-> {}, lastGraphLinks |-> {},
     queries |-> {}, resets |-> {}, upload |-> [rest |-> <<>>, cur |-> "", at |-> "idle"],
     asked |-> 0, batches |-> 0, nextId |-> 1, resetOutcome |-> "none"]

\* The useState initial values of App, with initializeApp awaiting loadConfig().
\* pool is appConfig.auth.user_pool_id as loadConfig gave it, pending the call a
\* handler awaits, signingOut a pending signOut(); via and last are history: the
\* call whose success authenticated the user, and how the last auth call ended.
AuthInit ==
    [authState |-> "loading", email |-> "", password |-> "", error |-> FALSE,
     loading |-> FALSE, configLoaded |-> FALSE,
     pool |-> "unknown", pending |-> "loadConfig", signingOut |-> FALSE,
     via |-> "none", last |-> "none"]

\* GraphVisualization before its first effect: the tenantId prop the page passes,
\* useState(true) for loading and an empty graph for data; data is modelled by the
\* tenant of the request whose response it is, requests are the calls of
\* fetchGraphData that await their response, issued counts them.
GraphViewInit ==
    [tenantId |-> "default", data |-> "empty", loading |-> TRUE, error |-> FALSE,
     mounted |-> FALSE, requests |-> {}, issued |-> 0]

\* ChatProvider mounted on an empty localStorage: the message list, the value
\* under 'graphrag-demo-chat' (NoItem for none), dirty while the save effect
\* has yet to run for the current list; clock is the time new Date() reads,
\* restored is history: this provider took its list from the storage.
ChatInit ==
    [messages |-> <<>>, storage |-> [present |-> FALSE, value |-> <<>>], dirty |-> TRUE, clock |-> 1,
     restored |-> FALSE]

\* A slot with no invocation.
Blank ==
    [op |-> "none", pc |-> "idle", user |-> "", tenant |-> "", fileName |-> "",
     content |-> "", alreadyProcessed |-> FALSE, chunkCount |-> 0, err |-> "none",
     indexOk |-> FALSE, indexCalls |-> 0, deleteCalls |-> 0,
     vec |-> "na", graph |-> "na", vecOut |-> {}, graphOut |-> {},
     vector_response |-> Sentinel, vector_chunks |-> {},
     graphrag_response |-> Sentinel, graphrag_graph_nodes |-> {},
     matchedTenant |-> "", ksOk |-> "na",
     prior |-> {}, afterReset |-> FALSE, http |-> "na"]

Free(p) == req[p].pc \in {"idle", "done"}

InFlight(p) == ~Free(p)

\* A new invocation takes the lowest free slot (slots are interchangeable).
Takes(p) ==
    /\ Free(p)
    /\ \A q \in Procs : q < p => InFlight(q)
    /\ started < MaxRequests

\* ---------------------------------------------------------------- registry

\* The table's primary key: partition key userId, sort key s3Path.
PrimaryKey(row) == <<row.userId, row.s3Path>>

\* A query of the md5-index: every row whose md5 attribute is the given one.
QueryMd5Index(rows, md5) == {r \in rows : r.md5 = md5}

\* Lookup(tenant, fingerprint): the rows of that tenant with that fingerprint.
Lookup(rows, tenantId, md5) ==
    {r \in QueryMd5Index(rows, md5) : r.tenantId = tenantId}

\* Put(record): insert-or-replace by primary identity.
Put(rows, row) ==
    {r \in rows : PrimaryKey(r) # PrimaryKey(row)} \cup {row}

\* ListByUser(userID)
ListByUser(rows, userId) == {r \in rows : r.userId = userId}

\* Delete(userID, storagePath): removes one record.
Delete(rows, userId, s3Path) ==
    {r \in rows : PrimaryKey(r) # <<userId, s3Path>>}

\* The rows DeleteAllForTenant(tenantID) is to remove.
TenantRows(rows, tenantId) == {r \in rows : r.tenantId = tenantId}

\* The IngestionRecord an Ingest writes.
Record(r, status) ==
    [userId     |-> r.user,
     s3Path     |-> S3Path(r.user, r.tenant, r.fileName),
     tenantId   |-> r.tenant,
     md5        |-> Fingerprint(r.user, r.tenant, r.content),
     fileName   |-> r.fileName,
     chunkCount |-> r.chunkCount,
     status     |-> status]

\* ---------------------------------------------------------- Knowledge Store

\* What a search under a tenant can see: the partition of its hashed tenant id.
Partition(docs, tenantId) == {d \in docs : d.key = HashedTenant(tenantId)}

\* Index(tenant, docID, text)
Indexed(docs, tenantId, content) ==
    docs \cup {[key |-> HashedTenant(tenantId), tenant |-> tenantId, content |-> content]}

\* ResetTenant(tenant)
ResetTenant(docs, tenantId) == docs \ Partition(docs, tenantId)

\* ------------------------------------------------------------------- Init

Init ==
    /\ registry = {}
    /\ storage = {}
    /\ ks = {}
    /\ req = [p \in Procs |-> Blank]
    /\ started = 0
    /\ succeeded = {}
    /\ wiped = {}
    /\ md5Index = {}
    /\ ui = UiInit
    /\ page = PageInit
    /\ auth = AuthInit
    /\ graphView = GraphViewInit
    /\ chat = ChatInit

\* ----------------------------------------------------------------- Ingest

\* Steps 1-3: validate, fingerprint, Lookup; short-circuit on an Indexed record.
IngestBegin(p, u, t, f, c) ==
    /\ Takes(p)
    /\ started' = started + 1
    /\ LET base == [Blank EXCEPT !.op = "ingest", !.user = u, !.tenant = t,
                                 !.fileName = f, !.content = c,
                                 !.prior = {s.n : s \in {s \in succeeded :
                                              /\ s.user = u /\ s.tenant = t
                                              /\ s.fileName = f /\ s.content = c}},
                                 !.afterReset = (<<t, Fingerprint(u, t, c)>> \in wiped)]
           hits == {r \in Lookup(md5Index, t, Fingerprint(u, t, c)) : r.status = "Indexed"}
       IN  IF ~Accepted(f, c)
           THEN req' = [req EXCEPT ![p] = [base EXCEPT !.pc = "done",
                                                        !.err = "UnsupportedFormat"]]
           ELSE IF hits # {}
           THEN \E r \in hits :
                    req' = [req EXCEPT ![p] = [base EXCEPT !.pc = "done",
                                                            !.alreadyProcessed = TRUE,
                                                            !.matchedTenant = r.tenantId,
                                                            !.chunkCount = r.chunkCount]]
           ELSE req' = [req EXCEPT ![p] = [base EXCEPT !.pc = "store"]]
    /\ wiped' = IF Accepted(f, c) THEN wiped \ {<<t, Fingerprint(u, t, c)>>} ELSE wiped
    /\ UNCHANGED <<registry, storage, ks, succeeded, md5Index, ui, page, auth, graphView, chat>>

\* Step 4: persist the raw content at the path scoped by (user, tenant, file name).
IngestStore(p) ==
    /\ req[p].op = "ingest" /\ req[p].pc = "store"
    /\ LET path == S3Path(req[p].user, req[p].tenant, req[p].fileName)
       IN  storage' = {o \in storage : o.path # path}
                      \cup {[path |-> path, content |-> req[p].content]}
    /\ req' = [req EXCEPT ![p].pc = "index"]
    /\ UNCHANGED <<registry, ks, started, succeeded, wiped, md5Index, ui, page, auth, graphView, chat>>

\* A first half of step 5 that calls Index again after a failure.
IngestIndexRetries(p) ==
    /\ req[p].op = "ingest" /\ req[p].pc = "index"
    /\ \/ \E n \in ChunkCounts :
            /\ ks' = Indexed(ks, req[p].tenant, req[p].content)
            /\ req' = [req EXCEPT ![p].pc = "put", ![p].indexOk = TRUE,
                                  ![p].chunkCount = n,
                                  ![p].indexCalls = req[p].indexCalls + 1]
       \/ /\ ks' = ks
          /\ req' = [req EXCEPT ![p].pc = IF req[p].indexCalls = 0 THEN "index" ELSE "put",
                                ![p].indexOk = FALSE,
                                ![p].indexCalls = req[p].indexCalls + 1]
    /\ UNCHANGED <<registry, storage, started, succeeded, wiped, md5Index, ui, page, auth, graphView, chat>>

\* Step 5, first half: KnowledgeStore.Index succeeds with a chunk count, or fails.
IngestIndex(p) ==
    /\ req[p].op = "ingest" /\ req[p].pc = "index"
    /\ \/ \E n \in ChunkCounts :
            /\ ks' = Indexed(ks, req[p].tenant, req[p].content)
            /\ req' = [req EXCEPT ![p].pc = "put", ![p].indexOk = TRUE,
                                  ![p].chunkCount = n,
                                  ![p].indexCalls = req[p].indexCalls + 1]
       \/ /\ ks' = ks
          /\ req' = [req EXCEPT ![p].pc = "put", ![p].indexOk = FALSE,
                                ![p].indexCalls = req[p].indexCalls + 1]
    /\ UNCHANGED <<registry, storage, started, succeeded, wiped, md5Index, ui, page, auth, graphView, chat>>

\* Step 5, second half: Put the Indexed or the Failed record and return.
IngestPut(p) ==
    /\ req[p].op = "ingest" /\ req[p].pc = "put"
    /\ IF req[p].indexOk
       THEN /\ registry' = Put(registry, Record(req[p], "Indexed"))
            /\ req' = [req EXCEPT ![p].pc = "done"]
            /\ succeeded' = succeeded \cup
                   {[user |-> req[p].user, tenant |-> req[p].tenant,
                     fileName |-> req[p].fileName, content |-> req[p].content,
                     n |-> req[p].chunkCount]}
       ELSE /\ registry' = Put(registry, Record(req[p], "Failed"))
            /\ req' = [req EXCEPT ![p].pc = "done", ![p].err = "IndexingFailed"]
            /\ succeeded' = succeeded
    /\ UNCHANGED <<storage, ks, started, wiped, md5Index, ui, page, auth, graphView, chat>>

\* ------------------------------------------------------------------ Query

\* Query(tenantID, questionText): both retrieval calls are launched.
QueryBegin(p, t) ==
    /\ Takes(p)
    /\ started' = started + 1
    /\ req' = [req EXCEPT ![p] = [Blank EXCEPT !.op = "query", !.pc = "join",
                                               !.tenant = t,
                                               !.vec = "running", !.graph = "running"]]
    /\ UNCHANGED <<registry, storage, ks, succeeded, wiped, md5Index, ui, page, auth, graphView, chat>>

\* A vector branch whose failure cancels the graph branch.
VectorBranchCancelsGraph(p) ==
    /\ req[p].op = "query" /\ req[p].vec = "running"
    /\ \/ req' = [req EXCEPT ![p].vec = "ok",
                             ![p].vecOut = Partition(ks, req[p].tenant)]
       \/ req' = [req EXCEPT ![p].vec = "failed", ![p].graph = "failed"]
    /\ UNCHANGED <<registry, storage, ks, started, succeeded, wiped, md5Index, ui, page, auth, graphView, chat>>

\* The vector branch ends: VectorSearch answered, or failed.
VectorBranch(p) ==
    /\ req[p].op = "query" /\ req[p].vec = "running"
    /\ \/ req' = [req EXCEPT ![p].vec = "ok",
                             ![p].vecOut = Partition(ks, req[p].tenant)]
       \/ req' = [req EXCEPT ![p].vec = "failed"]
    /\ UNCHANGED <<registry, storage, ks, started, succeeded, wiped, md5Index, ui, page, auth, graphView, chat>>

\* The graph branch ends: GraphSearch answered, or failed.
GraphBranch(p) ==
    /\ req[p].op = "query" /\ req[p].graph = "running"
    /\ \/ req' = [req EXCEPT ![p].graph = "ok",
                             ![p].graphOut = Partition(ks, req[p].tenant)]
       \/ req' = [req EXCEPT ![p].graph = "failed"]
    /\ UNCHANGED <<registry, storage, ks, started, succeeded, wiped, md5Index, ui, page, auth, graphView, chat>>

\* A join that is satisfied by the first branch to end.
JoinedFirstWins(r) == r.vec # "running" \/ r.graph # "running"

\* The join: both branches have ended.
Joined(r) == r.vec # "running" /\ r.graph # "running"

\* The response is assembled from the two outcomes and returned.
QueryJoin(p) ==
    /\ req[p].op = "query" /\ req[p].pc = "join"
    /\ Joined(req[p])
    /\ req' = [req EXCEPT
                 ![p].pc = "done",
                 ![p].vector_response = IF req[p].vec = "ok" THEN Answer ELSE Sentinel,
                 ![p].vector_chunks = IF req[p].vec = "ok" THEN req[p].vecOut ELSE {},
                 ![p].graphrag_response = IF req[p].graph = "ok" THEN Answer ELSE Sentinel,
                 ![p].graphrag_graph_nodes = IF req[p].graph = "ok" THEN req[p].graphOut ELSE {}]
    /\ UNCHANGED <<registry, storage, ks, started, succeeded, wiped, md5Index, ui, page, auth, graphView, chat>>

\* ------------------------------------------------------------------ Reset

\* Reset(tenantID, userID)
ResetBegin(p, t, u) ==
    /\ Takes(p)
    /\ started' = started + 1
    /\ req' = [req EXCEPT ![p] = [Blank EXCEPT !.op = "reset", !.pc = "ks",
                                               !.tenant = t, !.user = u]]
    /\ succeeded' = {}
    /\ UNCHANGED <<registry, storage, ks, wiped, md5Index, ui, page, auth, graphView, chat>>

\* A step 1 that reports the failure but goes on to step 2.
ResetKnowledgeStoreNoAbort(p) ==
    /\ req[p].op = "reset" /\ req[p].pc = "ks"
    /\ \/ /\ ks' = ResetTenant(ks, req[p].tenant)
          /\ req' = [req EXCEPT ![p].pc = "registry", ![p].ksOk = "ok"]
       \/ /\ ks' = ks
          /\ req' = [req EXCEPT ![p].pc = "registry", ![p].ksOk = "failed",
                                ![p].err = "ResetFailed"]
    /\ UNCHANGED <<registry, storage, started, succeeded, wiped, md5Index, ui, page, auth, graphView, chat>>

\* Step 1: KnowledgeStore.ResetTenant; on failure abort with ResetFailed.
ResetKnowledgeStore(p) ==
    /\ req[p].op = "reset" /\ req[p].pc = "ks"
    /\ \/ /\ ks' = ResetTenant(ks, req[p].tenant)
          /\ req' = [req EXCEPT ![p].pc = "registry", ![p].ksOk = "ok"]
       \/ /\ ks' = ks
          /\ req' = [req EXCEPT ![p].pc = "done", ![p].ksOk = "failed",
                                ![p].err = "ResetFailed"]
    /\ UNCHANGED <<registry, storage, started, succeeded, wiped, md5Index, ui, page, auth, graphView, chat>>

\* Step 2: Registry.DeleteAllForTenant, best effort: it removes all the rows of
\* the tenant, or fails part-way having removed only some (PartialReset).
ResetRegistry(p) ==
    /\ req[p].op = "reset" /\ req[p].pc = "registry"
    /\ \E gone \in SUBSET TenantRows(registry, req[p].tenant) :
          /\ registry' = registry \ gone
          /\ IF gone = TenantRows(registry, req[p].tenant)
             THEN /\ req' = [req EXCEPT ![p].pc = "done",
                                        ![p].deleteCalls = req[p].deleteCalls + 1]
                  /\ wiped' = wiped \cup
                        {<<r.tenantId, r.md5>> : r \in {r \in gone : r.status = "Indexed"}}
             ELSE /\ req' = [req EXCEPT ![p].pc = "done", ![p].err = "PartialReset",
                                        ![p].deleteCalls = req[p].deleteCalls + 1]
                  /\ wiped' = wiped
    /\ UNCHANGED <<storage, ks, started, succeeded, md5Index, ui, page, auth, graphView, chat>>

\* ----------------------------------------------------------------- Delete

\* DELETE /documents?user_id&s3_path: Registry.Delete of one record.
DeleteDocument(p, u, path) ==
    /\ Takes(p)
    /\ started' = started + 1
    /\ registry' = Delete(registry, u, path)
    /\ req' = [req EXCEPT ![p] = [Blank EXCEPT
                 !.op = "delete", !.pc = "done", !.user = u,
                 !.err = IF \E r \in registry : PrimaryKey(r) = <<u, path>>
                         THEN "none" ELSE "NotFound"]]
    /\ succeeded' = {}
    /\ UNCHANGED <<storage, ks, wiped, md5Index, ui, page, auth, graphView, chat>>

\* ------------------------------------------------------------ specification

\* The md5-index is a global secondary index: a write to the table reaches it
\* some time after the write has returned.
PropagateIndex ==
    /\ md5Index # registry
    /\ md5Index' = registry
    /\ UNCHANGED <<registry, storage, ks, req, started, succeeded, wiped, ui, page, auth, graphView, chat>>

\* The steps of the invocation in slot p that is already running.
Continue(p) ==
    \/ IngestStore(p)
    \/ IngestIndex(p)
    \/ IngestPut(p)
    \/ VectorBranch(p)
    \/ GraphBranch(p)
    \/ QueryJoin(p)
    \/ ResetKnowledgeStore(p)
    \/ ResetRegistry(p)

\* A new request arrives in slot p, from one of the users, under one of the tenants.
Begin(p, users, tenants) ==
    \/ \E u \in users, t \in tenants, f \in Files :
          IngestBegin(p, u, t, f.fileName, f.content)
    \/ \E t \in tenants : QueryBegin(p, t)
    \/ \E t \in tenants, u \in users : ResetBegin(p, t, u)
    \/ \E u \in users, r \in registry : DeleteDocument(p, u, r.s3Path)

Step(p, users, tenants) == Begin(p, users, tenants) \/ Continue(p)

\* Lambda invocations run concurrently: requests of one user under two tenants.
Next ==
    \/ \E p \in Procs : Step(p, ConcurrentUsers, ConcurrentTenants)
    \/ PropagateIndex

Spec == Init /\ [][Next]_vars

\* One request at a time, of every user under every tenant: a request is issued
\* only when none is in flight and the md5-index has caught up with the table.
SeqNext ==
    \/ \E p \in Procs :
          /\ \A q \in Procs \ {p} : Free(q)
          /\ md5Index = registry
          /\ Begin(p, Users, Tenants)
    \/ \E p \in Procs :
          /\ \A q \in Procs \ {p} : Free(q)
          /\ Continue(p)
    \/ PropagateIndex

SeqSpec == Init /\ [][SeqNext]_vars

\* One request at a time, issued as soon as the one before has returned: nothing
\* makes the caller wait for the md5-index.
SeqLagNext ==
    \/ \E p \in Procs :
          /\ \A q \in Procs \ {p} : Free(q)
          /\ Step(p, Users, Tenants)
    \/ PropagateIndex

SeqLagSpec == Init /\ [][SeqLagNext]_vars

\* An invocation that has started runs to its end; new requests are up to the caller.
FairInit ==
    /\ registry = {}
    /\ storage = {}
    /\ ks = {}
    /\ req = [p \in Procs |-> Blank]
    /\ started = MaxRequests - MaxFairRequests
    /\ succeeded = {}
    /\ wiped = {}
    /\ md5Index = {}
    /\ ui = UiInit
    /\ page = PageInit
    /\ auth = AuthInit
    /\ graphView = GraphViewInit
    /\ chat = ChatInit

FairSpec ==
    /\ FairInit /\ [][Next]_vars
    /\ \A p \in Procs : WF_vars(Continue(p))
    /\ WF_vars(PropagateIndex)

\* ------------------------------------------------------------ HTTP exchange

\* The requests the UI sends with signedFetch, and the one ChatInterface sends.
\* req[p].http is the promise of the fetch: "na" while it is pending, "hung" when
\* the request will never be answered, "ok" or "error" once a response has
\* arrived, "aborted" once the AbortController has fired.
SignedFetchOps == {"ingest", "query", "reset", "delete"}

\* ChatInterface.sendMessage arms setTimeout(() => controller.abort(), 60000) and
\* passes controller.signal to fetch; signedFetch passes no signal to fetch.
HasAbortTimeout(op) == op = "agent"

\* fetch(...) has resolved: response.ok, or an error status.
FetchResolves(p) ==
    /\ req[p].op # "none" /\ req[p].pc = "done" /\ req[p].http = "na"
    /\ req' = [req EXCEPT ![p].http = IF req[p].err = "none" THEN "ok" ELSE "error"]
    /\ UNCHANGED <<registry, storage, ks, started, succeeded, wiped, md5Index, ui, page, auth, graphView, chat>>

\* The HTTP request never answers: the connection stalls, the response is lost.
FetchNeverAnswers(p) ==
    /\ req[p].op # "none" /\ req[p].http = "na"
    /\ req' = [req EXCEPT ![p].http = "hung"]
    /\ UNCHANGED <<registry, storage, ks, started, succeeded, wiped, md5Index, ui, page, auth, graphView, chat>>

\* The timer fires and controller.abort() rejects the pending fetch.
ControllerAbort(p) ==
    /\ HasAbortTimeout(req[p].op)
    /\ req[p].http \in {"na", "hung"}
    /\ req' = [req EXCEPT ![p].http = "aborted", ![p].pc = "done"]
    /\ UNCHANGED <<registry, storage, ks, started, succeeded, wiped, md5Index, ui, page, auth, graphView, chat>>

\* ChatInterface.sendMessage: POST /api/invoke-agent.
AgentSend(p) ==
    /\ Takes(p)
    /\ started' = started + 1
    /\ req' = [req EXCEPT ![p] = [Blank EXCEPT !.op = "agent", !.pc = "remote"]]
    /\ UNCHANGED <<registry, storage, ks, succeeded, wiped, md5Index, ui, page, auth, graphView, chat>>

\* The agent proxy answers, with a result or with an error.
AgentAnswer(p) ==
    /\ req[p].op = "agent" /\ req[p].pc = "remote"
    /\ \E e \in {"none", "ApiError"} :
          req' = [req EXCEPT ![p].pc = "done", ![p].err = e]
    /\ UNCHANGED <<registry, storage, ks, started, succeeded, wiped, md5Index, ui, page, auth, graphView, chat>>

\* The UI sends a request only in a slot whose earlier exchange has settled.
Settled(p) == req[p].op = "none" \/ req[p].http \in {"ok", "error", "aborted"}

UiNext ==
    \/ \E p \in Procs : Settled(p) /\ Begin(p, ConcurrentUsers, ConcurrentTenants)
    \/ \E p \in Procs : Settled(p) /\ AgentSend(p)
    \/ \E p \in Procs : Continue(p)
    \/ \E p \in Procs : AgentAnswer(p)
    \/ \E p \in Procs : FetchResolves(p)
    \/ \E p \in Procs : FetchNeverAnswers(p)
    \/ \E p \in Procs : ControllerAbort(p)
    \/ PropagateIndex

\* The Lambdas, the agent proxy and the index make progress; a response that is
\* there is delivered; a timer that is armed fires.  Nothing obliges the network
\* to answer, nor the user to send another request.
UiSpec ==
    /\ FairInit /\ [][UiNext]_vars
    /\ \A p \in Procs : /\ WF_vars(Continue(p))
                        /\ WF_vars(AgentAnswer(p))
                        /\ WF_vars(FetchResolves(p))
                        /\ WF_vars(ControllerAbort(p))
    /\ WF_vars(PropagateIndex)

\* ------------------------------------------------------------- GraphRAGChat

\* The identity id of the signed-in user of the page.
UiUser == "u1"

\* What the user types into the tenant box.
TenantInputs == {"", "default", "tenant7351", " tenant7351", "&tenant7351"}

\* The tenant ids of the page in the order Array.prototype.sort() gives them
\* (UTF-16 code units: " " < "&" < "d" < "t").
TenantSortOrder ==
    <<" tenant7351", "&tenant7351", "default", "tenant1510540", "tenant7351",
      "tenant735165">>

\* uniqueTenants: the tenant ids of the stored documents, the empty one dropped.
UniqueTenants(u) == {d.tenantId : d \in u.storedDocuments} \ {""}

\* tenants[0] of the sorted list.
FirstTenant(tenants) ==
    LET i == CHOOSE i \in 1..Len(TenantSortOrder) :
                 /\ TenantSortOrder[i] \in tenants
                 /\ \A j \in 1..(i - 1) : TenantSortOrder[j] \notin tenants
    IN  TenantSortOrder[i]

\* The effect on [storedDocuments]: auto-select the first tenant while tenantId
\* and tenantInput are both still 'default'.
AutoSelectTenant(u) ==
    IF /\ u.storedDocuments # {} /\ UniqueTenants(u) # {}
       /\ u.tenantId = "default" /\ u.tenantInput = "default"
    THEN [u EXCEPT !.tenantId = FirstTenant(UniqueTenants(u)),
                   !.tenantInput = FirstTenant(UniqueTenants(u))]
    ELSE u

\* fetchStoredDocuments: GET /documents?user_id, then the effect above.
fetchStoredDocuments(u) ==
    AutoSelectTenant([u EXCEPT !.storedDocuments = ListByUser(registry', UiUser)])

\* The value a server reads for tenant_id from `...?tenant_id=${tenantId}&user_id=...`:
\* tenantId is put into the URL as it is, so it ends at its first "&" or "#".
RECURSIVE QueryParamValue(_, _)
QueryParamValue(raw, i) ==
    IF i > Len(raw) THEN raw
    ELSE IF SubSeq(raw, i, i) \in {"&", "#"} THEN SubSeq(raw, 1, i - 1)
    ELSE QueryParamValue(raw, i + 1)

\* Input onChange of the tenant box.
TenantInputChange(v) ==
    /\ ui' = [ui EXCEPT !.tenantInput = v]
    /\ UNCHANGED <<registry, storage, ks, req, started, succeeded, wiped, md5Index, page, auth, graphView, chat>>

\* The Set button of either form of the tenant field.
TenantSet ==
    /\ IF UniqueTenants(ui) # {}
       THEN ~(ui.tenantInput = "" \/ ui.tenantInput = ui.tenantId)
       ELSE ~(ui.tenantInput = ui.tenantId)
    /\ ui' = [ui EXCEPT !.tenantId = IF ui.tenantInput = "" THEN "default"
                                     ELSE ui.tenantInput,
                        !.chosen = TRUE]
    /\ UNCHANGED <<registry, storage, ks, req, started, succeeded, wiped, md5Index, page, auth, graphView, chat>>

\* Select onChange: one of the tenants of the stored documents.
TenantSelect(t) ==
    /\ t \in UniqueTenants(ui)
    /\ ui' = [ui EXCEPT !.tenantId = t, !.tenantInput = t, !.chosen = TRUE]
    /\ UNCHANGED <<registry, storage, ks, req, started, succeeded, wiped, md5Index, page, auth, graphView, chat>>

\* handleFileSelect: POST /upload-json?tenant_id=${tenantId}&user_id=...
handleFileSelect(p) ==
    /\ Settled(p)
    /\ \E f \in Files :
          IngestBegin(p, UiUser, QueryParamValue(ui.tenantId, 1), f.fileName, f.content)

\* sendMessage: POST /query with body { query, tenant_id: tenantId }.
sendMessage(p) == Settled(p) /\ QueryBegin(p, ui.tenantId)

\* handleResetGraph: POST /reset-graph?tenant_id=${tenantId}&user_id=...
handleResetGraph(p) ==
    Settled(p) /\ ResetBegin(p, QueryParamValue(ui.tenantId, 1), UiUser)

\* handleDeleteDocument: DELETE /documents?user_id&s3_path of a listed document.
handleDeleteDocument(p) ==
    /\ Settled(p)
    /\ \E d \in ui.storedDocuments : DeleteDocument(p, UiUser, d.s3Path)

\* The response of a request arrives and the handler goes on after its await:
\* an upload or a delete refreshes the document list, a reset also goes back to
\* the tenant 'default'; a response that is not ok only sets the error.
HandlerResumes(p) ==
    /\ req[p].op \in SignedFetchOps /\ req[p].pc = "done" /\ req[p].http = "na"
    /\ req' = [req EXCEPT ![p].http = IF req[p].err = "none" THEN "ok" ELSE "error"]
    /\ UNCHANGED <<registry, storage, ks, started, succeeded, wiped, md5Index, page, auth, graphView, chat>>
    /\ ui' = IF req[p].err # "none" \/ req[p].op = "query" THEN ui
             ELSE IF req[p].op = "reset"
             THEN fetchStoredDocuments([ui EXCEPT !.tenantId = "default",
                                                  !.tenantInput = "default"])
             ELSE fetchStoredDocuments(ui)

TenantNext ==
    \/ \E v \in TenantInputs : TenantInputChange(v)
    \/ TenantSet
    \/ \E t \in UniqueTenants(ui) : TenantSelect(t)
    \/ \E p \in Procs : handleFileSelect(p)
    \/ \E p \in Procs : sendMessage(p)
    \/ \E p \in Procs : handleResetGraph(p)
    \/ \E p \in Procs : handleDeleteDocument(p)
    \/ \E p \in Procs : Continue(p)
    \/ \E p \in Procs : HandlerResumes(p)
    \/ PropagateIndex

\* The page of one user against the Lambdas, for MaxFairRequests requests.
TenantSpec == FairInit /\ [][TenantNext]_vars

\* ------------------------------------------------------------------ claims

\* The Indexed rows recorded for one (user, tenant, content).
IndexedRows(u, t, c) ==
    {r \in registry : /\ r.status = "Indexed" /\ r.userId = u /\ r.tenantId = t
                      /\ r.md5 = Fingerprint(u, t, c)}

\* The step is a step of the invocation that is running in slot p.
StepOf(p) == InFlight(p) /\ req'[p] # req[p]

\* C1: an Ingest(u, t, name, c) that follows a successful Ingest(u, t, name, c)
\* with no Delete or Reset in between returns alreadyProcessed with the first
\* call's chunk count, calls Index not at all, and the registry holds exactly one
\* Indexed row for (u, t, c).
C1_IdempotentIngestion ==
    \A p \in Procs :
        (req[p].op = "ingest" /\ req[p].prior # {}) =>
            /\ req[p].pc = "done"
            /\ req[p].alreadyProcessed
            /\ req[p].chunkCount \in req[p].prior
            /\ req[p].indexCalls = 0
            /\ Cardinality(IndexedRows(req[p].user, req[p].tenant, req[p].content)) = 1

\* C2: the step in which Reset(t, u) returns success leaves ListByUser(u) with no
\* row of tenant t, and the next Ingest of a content whose Indexed row the reset
\* removed is not alreadyProcessed and calls Index again.
C2_ResetCompleteness ==
    /\ [][\A p \in Procs :
            (/\ req[p].op = "reset" /\ StepOf(p)
             /\ req'[p].pc = "done" /\ req'[p].err = "none") =>
                \A r \in ListByUser(registry', req[p].user) :
                    r.tenantId # req[p].tenant]_vars
    /\ [](\A p \in Procs :
            (req[p].op = "ingest" /\ req[p].afterReset
                /\ Accepted(req[p].fileName, req[p].content)) =>
                /\ ~req[p].alreadyProcessed
                /\ req[p].pc = "done" => req[p].indexCalls = 1)

\* C3: once ResetTenant(t) has succeeded, the registry eventually holds no row of
\* tenant t, also when DeleteAllForTenant(t) fails part-way.
C3_NoRowSurvivesReset ==
    \A t \in Tenants :
        (\E p \in Procs : req[p].op = "reset" /\ req[p].tenant = t /\ req[p].pc = "registry")
            ~> (TenantRows(registry, t) = {})

C5_TenantIsolation ==
    \A p \in Procs :
        req[p].op = "query" =>
            \A d \in req[p].vector_chunks \cup req[p].graphrag_graph_nodes :
                d.tenant = req[p].tenant

\* C6: a returned Query carries, for a branch that failed, the sentinel and no
\* sources and, for a branch that answered, its answer and what it retrieved;
\* no Query returns an error; and no step ends both branches at once.
C6_DualIndependence ==
    /\ [](\A p \in Procs :
            (req[p].op = "query" /\ req[p].pc = "done") =>
                /\ req[p].err = "none"
                /\ req[p].vec = "failed" =>
                      req[p].vector_response = Sentinel /\ req[p].vector_chunks = {}
                /\ req[p].vec = "ok" =>
                      req[p].vector_response = Answer
                      /\ req[p].vector_chunks = req[p].vecOut
                /\ req[p].graph = "failed" =>
                      req[p].graphrag_response = Sentinel
                      /\ req[p].graphrag_graph_nodes = {}
                /\ req[p].graph = "ok" =>
                      req[p].graphrag_response = Answer
                      /\ req[p].graphrag_graph_nodes = req[p].graphOut)
    /\ [][\A p \in Procs :
            (req[p].op = "query" /\ StepOf(p)) =>
                (req'[p].vec = req[p].vec \/ req'[p].graph = req[p].graph)]_vars

\* C6 witness: a returned Query whose vector branch failed and whose graph branch
\* answered with nodes.
C6_Witness ==
    \E p \in Procs :
        /\ req[p].op = "query" /\ req[p].pc = "done"
        /\ req[p].vec = "failed" /\ req[p].graph = "ok"
        /\ req[p].vector_response = Sentinel
        /\ req[p].graphrag_response = Answer
        /\ req[p].graphrag_graph_nodes # {}

\* C7: a Query that has returned has both branches ended.
C7_JoinOnBothBranches ==
    \A p \in Procs :
        (req[p].op = "query" /\ req[p].pc = "done") =>
            req[p].vec \in {"ok", "failed"} /\ req[p].graph \in {"ok", "failed"}

\* C7 witness: a Query still waiting with one branch ended and the other running.
C7_Witness ==
    \E p \in Procs :
        /\ req[p].op = "query" /\ req[p].pc = "join"
        /\ req[p].graph = "failed" /\ req[p].vec = "running"

\* C8: a Reset whose ResetTenant failed ends with ResetFailed, has not called
\* DeleteAllForTenant, and the failing step leaves the registry as it was.
C8_ResetAbortsOnStoreFailure ==
    /\ [](\A p \in Procs :
            req[p].ksOk = "failed" =>
                req[p].pc = "done" /\ req[p].err = "ResetFailed" /\ req[p].deleteCalls = 0)
    /\ [][\A p \in Procs :
            (req[p].op = "reset" /\ StepOf(p) /\ req'[p].ksOk = "failed") =>
                registry' = registry]_vars

\* C8 witness: a Reset ended with ResetFailed while the tenant has rows.
C8_Witness ==
    \E p \in Procs :
        /\ req[p].op = "reset" /\ req[p].pc = "done" /\ req[p].err = "ResetFailed"
        /\ TenantRows(registry, req[p].tenant) # {}

\* C9: a step of Reset(t, u) changes neither the Knowledge Store documents nor
\* the registry rows of any tenant other than t.
C9_ResetConfinedToTenant ==
    [][\A p \in Procs :
        (req[p].op = "reset" /\ StepOf(p)) =>
            /\ {d \in ks' : d.tenant # req[p].tenant} = {d \in ks : d.tenant # req[p].tenant}
            /\ {r \in registry' : r.tenantId # req[p].tenant}
                 = {r \in registry : r.tenantId # req[p].tenant}]_vars

\* C10: the registry holds at most one Indexed row for a (user, tenant, content).
C10_AtMostOneIndexedRecord ==
    \A r1, r2 \in registry :
        (/\ r1.status = "Indexed" /\ r2.status = "Indexed"
         /\ r1.userId = r2.userId /\ r1.tenantId = r2.tenantId /\ r1.md5 = r2.md5)
            => r1 = r2

\* C11: with one request at a time and no Delete or Reset since, an Index call of an
\* Ingest succeeds only for a content of which no upload by that user under that
\* tenant has been indexed before, whatever the file names.
C11_AtMostOnceIndexing ==
    [][\A p \in Procs :
        (/\ req[p].op = "ingest" /\ req[p].pc = "index" /\ StepOf(p)
         /\ req'[p].indexOk) =>
            ~\E s \in succeeded : /\ s.user = req[p].user
                                  /\ s.tenant = req[p].tenant
                                  /\ s.content = req[p].content]_vars

\* C12: a step of an Ingest keeps every Indexed record of a (tenant, fingerprint)
\* with its status and chunk count, and takes no Failed record back to Unknown;
\* the status moves Unknown -> Indexed, Unknown -> Failed or Failed -> Indexed only.
C12_IndexedRecordImmutable ==
    [][(\E p \in Procs : req[p].op = "ingest" /\ StepOf(p)) =>
        \A r \in registry :
            \E r2 \in registry' :
                /\ r2.tenantId = r.tenantId
                /\ r2.md5 = r.md5
                /\ r.status = "Indexed" =>
                      r2.status = "Indexed" /\ r2.chunkCount = r.chunkCount]_vars

\* C13: when the first two requests are Ingests of one fingerprint under one tenant
\* that were in flight together and both have returned, and an Index call of one
\* of them succeeded, the registry holds an Indexed record of that fingerprint
\* whose chunk count is the count a successful Index call returned.
C13_ConcurrentDuplicateIngestion ==
    (/\ started = 2
     /\ \A p \in Procs : req[p].op = "ingest" /\ req[p].pc = "done"
     /\ \A p, q \in Procs : /\ req[p].user = req[q].user
                            /\ req[p].tenant = req[q].tenant
                            /\ req[p].content = req[q].content
     /\ \E p \in Procs : req[p].indexOk) =>
        \E r \in registry, p \in Procs :
            /\ r.status = "Indexed"
            /\ r.tenantId = req[p].tenant
            /\ r.md5 = Fingerprint(req[p].user, req[p].tenant, req[p].content)
            /\ req[p].indexOk
            /\ r.chunkCount = req[p].chunkCount

\* The records of one fingerprint under one tenant.
RecordsOf(rows, u, t, c) ==
    {r \in rows : r.tenantId = t /\ r.md5 = Fingerprint(u, t, c)}

\* C14: the step of an Ingest that follows a failed Index writes a Failed record
\* of its (tenant, fingerprint) and returns IndexingFailed; an Ingest of a content
\* in an accepted file that has a Failed record and no Indexed one is not
\* alreadyProcessed and goes on to call Index; and the step that follows a
\* successful Index leaves an Indexed record with the chunk count of that call.
C14_FailedIndexingRetryable ==
    /\ [][\A p \in Procs :
            (req[p].op = "ingest" /\ req[p].pc = "put" /\ StepOf(p)) =>
                LET recs == RecordsOf(registry', req[p].user, req[p].tenant, req[p].content)
                IN  IF req[p].indexOk
                    THEN /\ \E r \in recs : /\ r.status = "Indexed"
                                            /\ r.chunkCount = req[p].chunkCount
                         /\ req'[p].err = "none"
                    ELSE /\ \E r \in recs : r.status = "Failed"
                         /\ req'[p].pc = "done"
                         /\ req'[p].err = "IndexingFailed"]_vars
    /\ [][\A p \in Procs :
            (Free(p) /\ req'[p] # req[p] /\ req'[p].op = "ingest") =>
                LET recs == RecordsOf(registry, req'[p].user, req'[p].tenant,
                                      req'[p].content)
                IN  (/\ Accepted(req'[p].fileName, req'[p].content)
                     /\ recs # {} /\ \A r \in recs : r.status = "Failed") =>
                        ~req'[p].alreadyProcessed /\ req'[p].pc = "store"]_vars
    /\ [](\A p \in Procs :
            (req[p].op = "ingest" /\ req[p].pc = "done"
                /\ ~req[p].alreadyProcessed /\ req[p].err # "UnsupportedFormat") =>
                req[p].indexCalls = 1)

C16_ReadAfterWriteOnIndex ==
    [][\A p \in Procs :
        (/\ Free(p) /\ req'[p] # req[p] /\ req'[p].op = "ingest"
         /\ Accepted(req'[p].fileName, req'[p].content)
         /\ \E r \in RecordsOf(registry, req'[p].user, req'[p].tenant,
                               req'[p].content) : r.status = "Indexed") =>
            req'[p].alreadyProcessed]_vars

\* C17: a step of an upload, a delete or a reset issued by one user leaves the
\* registry records of every other user as they were.
C17_NoCrossUserAccess ==
    [][\A p \in Procs :
        (req'[p] # req[p] /\ req'[p].op \in {"ingest", "delete", "reset"}) =>
            {r \in registry' : r.userId # req'[p].user}
                = {r \in registry : r.userId # req'[p].user}]_vars

\* C18: every upload, query and reset the UI has sent comes to an end: its fetch
\* settles with a response or with an error, also when the HTTP request never
\* answers.
C18_NoOperationBlocksIndefinitely ==
    \A p \in Procs :
        (req[p].op \in {"ingest", "query", "reset"} /\ req[p].http \in {"na", "hung"})
            ~> (req[p].http \in {"ok", "error", "aborted"})

\* No leading and no trailing blank.
IsTrimmed(s) ==
    s = "" \/ (SubSeq(s, 1, 1) # " " /\ SubSeq(s, Len(s), Len(s)) # " ")

\* C19: the tenant id carried by an upload, a query or a reset request is not
\* empty and has no leading or trailing whitespace.
C19_TenantNonEmptyAndTrimmed ==
    \A p \in Procs :
        req[p].op \in {"ingest", "query", "reset"} =>
            req[p].tenant # "" /\ IsTrimmed(req[p].tenant)

\* C20: within one request Index and DeleteAllForTenant are called at most once,
\* a retrieval branch that has ended is not run again, ResetTenant is not
\* attempted again, and the step in which a request ends for the UI with an error,
\* without an answer or with an abort sends no request.
C20_NoAutomaticRetry ==
    /\ [](\A p \in Procs : req[p].indexCalls <= 1 /\ req[p].deleteCalls <= 1)
    /\ [][\A p \in Procs :
            StepOf(p) =>
                /\ req[p].vec \in {"ok", "failed"} => req'[p].vec = req[p].vec
                /\ req[p].graph \in {"ok", "failed"} => req'[p].graph = req[p].graph
                /\ req'[p].pc # req[p].pc => req'[p].pc # "ks"
                /\ req[p].pc # "index" => req'[p].indexCalls = req[p].indexCalls]_vars
    /\ [][\A p \in Procs :
            (req[p].http = "na" /\ req'[p].http \in {"error", "hung", "aborted"}) =>
                /\ started' = started
                /\ \A q \in Procs : Free(q) => Free(q)']_vars

\* C20 witness: an upload whose one Index call failed has ended, the UI has the
\* error, and no request is in flight.
C20_Witness ==
    \E p \in Procs :
        /\ req[p].op = "ingest" /\ req[p].pc = "done"
        /\ req[p].err = "IndexingFailed" /\ req[p].indexCalls = 1
        /\ req[p].http = "error"
        /\ \A q \in Procs : Free(q)

\* C21: once the user has pressed Set or picked a tenant in the Select, the step
\* in which the response of an upload or of a delete arrives and the document
\* list is refreshed leaves the active tenant as it was, and the one of a
\* successful reset leaves it on the 'default' the handler has set.
C21_AutoSelectOnlyOnInitialLoad ==
    [][\A p \in Procs :
        (/\ ui.chosen
         /\ req[p].op \in {"ingest", "delete", "reset"}
         /\ req[p].http = "na" /\ req'[p].http \in {"ok", "error"}) =>
            ui'.tenantId = IF req[p].op = "reset" /\ req[p].err = "none"
                           THEN "default" ELSE ui.tenantId]_vars

\* ------------------------------------------- GraphRAGChat: panes and history

\* Questions sent in one behaviour of the page.
MaxQuestions == 2

\* File selections uploaded in one behaviour of the page.
MaxBatches == 2

\* The tenants of the page: the initial one and one the user has documents in.
PageTenants == {"default", "tenant7351"}

\* What the user picks in the file dialog: one file, or two files.
Selections == {<<"a.txt">>, <<"a.txt", "b.md">>}

\* Send to Both: disabled={loading || !input.trim()} with the button always on.
SendNeverDisabled == FALSE

\* Send to Both, and the question box: disabled while loading.
SendDisabled == page.loading

\* prev.map(f => f.name === file.name ? { ...f, status } : f)
MapStatus(files, name, status) ==
    [i \in DOMAIN files |->
        IF files[i].name = name THEN [files[i] EXCEPT !.status = status] ELSE files[i]]

\* The head of the loop body: the new entry is put first with status 'uploading'
\* and every entry of that name is set to 'processing'.
BeginFile(files, name, id) ==
    MapStatus(<<[name |-> name, status |-> "uploading", id |-> id]>> \o files,
              name, "processing")

\* The loop goes on with the next file of the selection, or ends:
\* setUploading(false).
NextFile(pg) ==
    IF pg.upload.rest = <<>>
    THEN [pg EXCEPT !.uploading = FALSE,
                    !.upload = [rest |-> <<>>, cur |-> "", at |-> "idle"]]
    ELSE [pg EXCEPT !.files = BeginFile(pg.files, Head(pg.upload.rest), pg.nextId),
                    !.nextId = pg.nextId + 1,
                    !.upload = [rest |-> Tail(pg.upload.rest),
                                cur |-> Head(pg.upload.rest), at |-> "fetch"]]

\* The effect on [storedDocuments] after a refresh whose list has t first.
AfterRefresh(pg, t) ==
    IF pg.tenantId = "default" /\ pg.tenantInput = "default"
    THEN [pg EXCEPT !.tenantId = t, !.tenantInput = t]
    ELSE pg

\* sendMessage up to its await: the question goes to both panes, the results
\* are cleared, POST /query is sent with the tenantId of this render.
SendClicked ==
    /\ ~SendDisabled
    /\ page.asked < MaxQuestions
    /\ LET userMessage == [role |-> "user", q |-> page.asked + 1]
       IN  page' = [page EXCEPT
                !.graphMessages = Append(@, userMessage),
                !.vectorMessages = Append(@, userMessage),
                !.loading = TRUE, !.error = FALSE,
                !.lastVectorChunks = {}, !.lastGraphNodes = {}, !.lastGraphLinks = {},
                !.queries = @ \cup {[q |-> page.asked + 1, tenant |-> page.tenantId]},
                !.asked = @ + 1]
    /\ UNCHANGED <<backend, auth, graphView, chat>>

\* A success branch that appends the answer to the GraphRAG pane only.
QueryAnsweredGraphOnly(r) ==
    /\ r \in page.queries
    /\ \E chunks \in BOOLEAN, nodes \in BOOLEAN :
          page' = [page EXCEPT
                !.graphMessages = Append(@, [role |-> "assistant", q |-> r.q]),
                !.lastVectorChunks = IF chunks THEN {r.tenant} ELSE {},
                !.lastGraphNodes = IF nodes THEN {r.tenant} ELSE {},
                !.lastGraphLinks = IF nodes THEN {r.tenant} ELSE {},
                !.loading = FALSE,
                !.queries = @ \ {r}]
    /\ UNCHANGED <<backend, auth, graphView, chat>>

\* sendMessage after its await, res.ok: one answer to each pane, the results of
\* the response (each list may be empty), loading off.
QueryAnswered(r) ==
    /\ r \in page.queries
    /\ \E chunks \in BOOLEAN, nodes \in BOOLEAN :
          page' = [page EXCEPT
                !.graphMessages = Append(@, [role |-> "assistant", q |-> r.q]),
                !.vectorMessages = Append(@, [role |-> "assistant", q |-> r.q]),
                !.lastVectorChunks = IF chunks THEN {r.tenant} ELSE {},
                !.lastGraphNodes = IF nodes THEN {r.tenant} ELSE {},
                !.lastGraphLinks = IF nodes THEN {r.tenant} ELSE {},
                !.loading = FALSE,
                !.queries = @ \ {r}]
    /\ UNCHANGED <<backend, auth, graphView, chat>>

\* sendMessage after its await, the request threw or !res.ok.
QueryFailed(r) ==
    /\ r \in page.queries
    /\ page' = [page EXCEPT !.error = TRUE, !.loading = FALSE, !.queries = @ \ {r}]
    /\ UNCHANGED <<backend, auth, graphView, chat>>

\* The Reset Graph button of the header: loading={resetting}.
ResetModalOpen ==
    /\ ~page.resetting /\ ~page.showResetModal
    /\ page' = [page EXCEPT !.showResetModal = TRUE]
    /\ UNCHANGED <<backend, auth, graphView, chat>>

\* Cancel, or onDismiss of the modal.
ResetModalDismiss ==
    /\ page.showResetModal
    /\ page' = [page EXCEPT !.showResetModal = FALSE]
    /\ UNCHANGED <<backend, auth, graphView, chat>>

\* handleResetGraph up to its await, from the Reset Graph button of the modal.
ResetConfirmed ==
    /\ page.showResetModal /\ ~page.resetting
    /\ page' = [page EXCEPT !.resetting = TRUE, !.error = FALSE,
                            !.resets = @ \cup {[tenant |-> page.tenantId, at |-> "fetch"]}]
    /\ UNCHANGED <<backend, auth, graphView, chat>>

\* A failing branch of handleResetGraph that clears the page all the same.
ResetFailedClearsPage(r) ==
    /\ r \in page.resets /\ r.at = "fetch"
    /\ page' = [page EXCEPT !.graphMessages = <<>>, !.vectorMessages = <<>>,
                            !.files = <<>>,
                            !.error = TRUE, !.resetting = FALSE,
                            !.showResetModal = FALSE, !.resets = @ \ {r},
                            !.resetOutcome = "failed"]
    /\ UNCHANGED <<backend, auth, graphView, chat>>

\* handleResetGraph after its await, the request threw or !res.ok: catch, finally.
ResetFailed(r) ==
    /\ r \in page.resets /\ r.at = "fetch"
    /\ page' = [page EXCEPT !.error = TRUE, !.resetting = FALSE,
                            !.showResetModal = FALSE, !.resets = @ \ {r},
                            !.resetOutcome = "failed"]
    /\ UNCHANGED <<backend, auth, graphView, chat>>

\* handleResetGraph after its await, res.ok: panes, history, tenant and results
\* are reset, then it awaits fetchStoredDocuments().
ResetAnswered(r) ==
    /\ r \in page.resets /\ r.at = "fetch"
    /\ page' = [page EXCEPT !.graphMessages = <<>>, !.vectorMessages = <<>>,
                            !.files = <<>>,
                            !.tenantId = "default", !.tenantInput = "default",
                            !.lastVectorChunks = {}, !.lastGraphNodes = {},
                            !.lastGraphLinks = {},
                            !.resets = (@ \ {r}) \cup {[r EXCEPT !.at = "refresh"]}]
    /\ UNCHANGED <<backend, auth, graphView, chat>>

\* The refresh has ended: the effect on [storedDocuments], then finally.
ResetRefreshed(r, t) ==
    /\ r \in page.resets /\ r.at = "refresh"
    /\ page' = AfterRefresh([page EXCEPT !.resetting = FALSE, !.showResetModal = FALSE,
                                         !.resets = @ \ {r}, !.resetOutcome = "ok"], t)
    /\ UNCHANGED <<backend, auth, graphView, chat>>

\* Select onChange.
SelectTenantOption(t) ==
    /\ page' = [page EXCEPT !.tenantId = t, !.tenantInput = t,
                            !.lastVectorChunks = {}, !.lastGraphNodes = {},
                            !.lastGraphLinks = {}]
    /\ UNCHANGED <<backend, auth, graphView, chat>>

\* Input onChange of the tenant box.
TenantTyped(v) ==
    /\ page.tenantInput # v
    /\ page' = [page EXCEPT !.tenantInput = v]
    /\ UNCHANGED <<backend, auth, graphView, chat>>

\* The Set button beside the Select: disabled={!tenantInput || tenantInput === tenantId}.
SetPressed ==
    /\ ~(page.tenantInput = "" \/ page.tenantInput = page.tenantId)
    /\ page' = [page EXCEPT !.tenantId = page.tenantInput,
                            !.lastVectorChunks = {}, !.lastGraphNodes = {},
                            !.lastGraphLinks = {}]
    /\ UNCHANGED <<backend, auth, graphView, chat>>

\* handleFileSelect up to its first await: the Upload button is loading={uploading}.
FilesSelected(sel) ==
    /\ ~page.uploading
    /\ page.batches < MaxBatches
    /\ page' = [page EXCEPT !.uploading = TRUE, !.error = FALSE,
                            !.files = BeginFile(page.files, Head(sel), page.nextId),
                            !.nextId = @ + 1, !.batches = @ + 1,
                            !.upload = [rest |-> Tail(sel), cur |-> Head(sel),
                                        at |-> "fetch"]]
    /\ UNCHANGED <<backend, auth, graphView, chat>>

\* The upload of the current file answered ok: 'completed', then it awaits
\* fetchStoredDocuments().
UploadAnswered ==
    /\ page.upload.at = "fetch"
    /\ page' = [page EXCEPT !.files = MapStatus(@, page.upload.cur, "completed"),
                            !.upload.at = "refresh"]
    /\ UNCHANGED <<backend, auth, graphView, chat>>

\* The refresh after an upload has ended; the loop goes on.
UploadRefreshed(t) ==
    /\ page.upload.at = "refresh"
    /\ page' = NextFile(AfterRefresh(page, t))
    /\ UNCHANGED <<backend, auth, graphView, chat>>

\* The upload of the current file threw or !res.ok: 'error'; the loop goes on.
UploadFailed ==
    /\ page.upload.at = "fetch"
    /\ page' = NextFile([page EXCEPT !.files = MapStatus(@, page.upload.cur, "error"),
                                     !.error = TRUE])
    /\ UNCHANGED <<backend, auth, graphView, chat>>

PageNext ==
    \/ SendClicked
    \/ \E r \in page.queries : QueryAnswered(r)
    \/ \E r \in page.queries : QueryFailed(r)
    \/ ResetModalOpen
    \/ ResetModalDismiss
    \/ ResetConfirmed
    \/ \E r \in page.resets : ResetFailed(r)
    \/ \E r \in page.resets : ResetAnswered(r)
    \/ \E r \in page.resets, t \in PageTenants : ResetRefreshed(r, t)
    \/ \E t \in PageTenants : SelectTenantOption(t)
    \/ \E v \in PageTenants : TenantTyped(v)
    \/ SetPressed
    \/ \E sel \in Selections : FilesSelected(sel)
    \/ UploadAnswered
    \/ \E t \in PageTenants : UploadRefreshed(t)
    \/ UploadFailed

\* The page of one signed-in user; the responses of the backend are inputs.
PageSpec == Init /\ [][PageNext]_vars

\* ------------------------------------------------------- claims on the page

\* The step ends a handleResetGraph whose request failed.
ResetFailStep ==
    \E r \in page.resets : r.at = "fetch" /\ page'.resets = page.resets \ {r}

\* The step ends a handleResetGraph whose request succeeded.
ResetSuccessEnd ==
    \E r \in page.resets : r.at = "refresh" /\ page'.resets = page.resets \ {r}

\* C22: the step in which handleResetGraph ends after a failed /reset-graph
\* request changes none of the panes, the history, the tenant fields and the
\* results and sets the error; in that step and in the one that ends a
\* successful reset, resetting goes back to false and the modal is closed.
C22_FailedResetLeavesUiUnchanged ==
    /\ [][ResetFailStep =>
            /\ page'.graphMessages = page.graphMessages
            /\ page'.vectorMessages = page.vectorMessages
            /\ page'.files = page.files
            /\ page'.tenantId = page.tenantId
            /\ page'.tenantInput = page.tenantInput
            /\ page'.lastVectorChunks = page.lastVectorChunks
            /\ page'.lastGraphNodes = page.lastGraphNodes
            /\ page'.lastGraphLinks = page.lastGraphLinks
            /\ page'.error]_vars
    /\ [][(ResetFailStep \/ ResetSuccessEnd) =>
            ~page'.resetting /\ ~page'.showResetModal]_vars

\* C22 witness: a reset has failed on a page with messages, an upload history,
\* results and a tenant of the user's; all of them are still there.
C22_Witness ==
    /\ page.resetOutcome = "failed" /\ page.error
    /\ ~page.resetting /\ ~page.showResetModal
    /\ page.graphMessages # <<>> /\ page.files # <<>>
    /\ page.lastVectorChunks # {} /\ page.tenantId = "tenant7351"

\* C24: the results shown were returned by a /query request sent with the
\* tenantId that is active now.
C24_ProvenanceOfActiveTenant ==
    \A t \in page.lastVectorChunks \cup page.lastGraphNodes \cup page.lastGraphLinks :
        t = page.tenantId

\* C26: in each pane every assistant message comes right after the user
\* message of its query.
C26_AnswerFollowsQuestion ==
    \A msgs \in {page.graphMessages, page.vectorMessages} :
        \A i \in DOMAIN msgs :
            msgs[i].role = "assistant" =>
                /\ i > 1
                /\ msgs[i - 1] = [role |-> "user", q |-> msgs[i].q]

\* C27: at most one /query request is outstanding, and loading is true exactly
\* while one is.
C27_AtMostOneQueryInFlight ==
    /\ Cardinality(page.queries) <= 1
    /\ page.loading <=> page.queries # {}

\* C27 witness: the second question is in flight, the first one has its answer,
\* and a reset is in flight too.
C27_Witness ==
    /\ page.asked = 2 /\ Cardinality(page.queries) = 1 /\ page.loading
    /\ Len(page.graphMessages) = 3 /\ page.resets # {}

\* C28: an entry of the upload history that has reached 'completed' or 'error'
\* keeps that status as long as it is in the history, no entry goes back to
\* 'uploading', and when uploading is false every entry is 'completed' or 'error'.
C28_UploadStatusOneWay ==
    /\ [][\A i \in DOMAIN page.files, j \in DOMAIN page'.files :
            page.files[i].id = page'.files[j].id =>
                /\ page.files[i].status \in {"completed", "error"} =>
                        page'.files[j].status = page.files[i].status
                /\ page'.files[j].status = "uploading" =>
                        page.files[i].status = "uploading"]_vars
    /\ [](\A i \in DOMAIN page.files :
            ~page.uploading => page.files[i].status \in {"completed", "error"})

\* C25: the two panes have the same length, the same role and the same question
\* at every position; the step of a sendMessage appends its user message to both
\* panes, and the step that ends a /query appends one assistant message to both
\* panes or leaves both as they were.
C25_PanesInStep ==
    /\ [](/\ Len(page.graphMessages) = Len(page.vectorMessages)
          /\ \A i \in DOMAIN page.graphMessages :
                /\ page.graphMessages[i].role = page.vectorMessages[i].role
                /\ page.graphMessages[i].q = page.vectorMessages[i].q)
    /\ [][page'.asked = page.asked + 1 =>
            LET userMessage == [role |-> "user", q |-> page'.asked]
            IN  /\ page'.graphMessages = Append(page.graphMessages, userMessage)
                /\ page'.vectorMessages = Append(page.vectorMessages, userMessage)]_vars
    /\ [][\A r \in page.queries :
            r \notin page'.queries =>
                LET answer == [role |-> "assistant", q |-> r.q]
                IN  \/ /\ page'.graphMessages = Append(page.graphMessages, answer)
                       /\ page'.vectorMessages = Append(page.vectorMessages, answer)
                    \/ /\ page'.graphMessages = page.graphMessages
                       /\ page'.vectorMessages = page.vectorMessages]_vars

\* C25 witness: after a reset that cleared the panes while the first question
\* was in flight, both panes hold its answer, the second question and its answer.
C25_Witness ==
    /\ page.resetOutcome = "ok"
    /\ page.graphMessages = <<[role |-> "assistant", q |-> 1],
                              [role |-> "user", q |-> 2],
                              [role |-> "assistant", q |-> 2]>>
    /\ page.vectorMessages = page.graphMessages

\* ------------------------------------------------------------ App: auth gate

\* What the user types into the e-mail and the password box.
Typed == {"", "x"}

\* The render of App: <GraphRAGChat/> is returned in this case only.
ChatRendered == auth.authState = "authenticated" /\ auth.configLoaded

\* The sign-in, sign-up and confirmation forms are on the screen.
FormsRendered == auth.authState \notin {"loading", "authenticated"} /\ auth.configLoaded

\* initializeApp: loadConfig() resolved.  With a user pool Amplify is configured
\* and getCurrentUser() is awaited; without one the user is let in.
ConfigLoaded(hasPool) ==
    /\ auth.pending = "loadConfig"
    /\ auth' = IF hasPool
               THEN [auth EXCEPT !.pool = "yes", !.pending = "getCurrentUser"]
               ELSE [auth EXCEPT !.pool = "no", !.pending = "none",
                                 !.authState = "authenticated", !.configLoaded = TRUE,
                                 !.via = "noAuth"]
    /\ UNCHANGED <<backend, page, graphView, chat>>

\* initializeApp: loadConfig() threw.
ConfigFailed ==
    /\ auth.pending = "loadConfig"
    /\ auth' = [auth EXCEPT !.pending = "none", !.error = TRUE,
                            !.authState = "signIn", !.configLoaded = TRUE]
    /\ UNCHANGED <<backend, page, graphView, chat>>

\* initializeApp: getCurrentUser() resolved, or threw.
CurrentUserChecked(signedIn) ==
    /\ auth.pending = "getCurrentUser"
    /\ auth' = IF signedIn
               THEN [auth EXCEPT !.pending = "none", !.authState = "authenticated",
                                 !.configLoaded = TRUE, !.via = "getCurrentUser"]
               ELSE [auth EXCEPT !.pending = "none", !.authState = "signIn",
                                 !.configLoaded = TRUE]
    /\ UNCHANGED <<backend, page, graphView, chat>>

\* Input onChange of the e-mail and of the password box.
CredentialsTyped(e, pw) ==
    /\ FormsRendered /\ auth.authState \in {"signIn", "signUp"}
    /\ <<e, pw>> # <<auth.email, auth.password>>
    /\ auth' = [auth EXCEPT !.email = e, !.password = pw]
    /\ UNCHANGED <<backend, page, graphView, chat>>

\* Create Account, and Back to Sign In.
FormSwitched(to) ==
    /\ FormsRendered
    /\ \/ auth.authState = "signIn" /\ to = "signUp"
       \/ auth.authState \in {"signUp", "confirmSignUp"} /\ to = "signIn"
    /\ auth' = [auth EXCEPT !.authState = to]
    /\ UNCHANGED <<backend, page, graphView, chat>>

\* Alert onDismiss.
ErrorDismissed ==
    /\ FormsRendered /\ auth.error
    /\ auth' = [auth EXCEPT !.error = FALSE]
    /\ UNCHANGED <<backend, page, graphView, chat>>

\* handleSignIn, handleSignUp, handleConfirmSignUp up to their await: the
\* primary button of the form on the screen, loading={loading}.
PrimaryPressed ==
    /\ FormsRendered /\ ~auth.loading
    /\ auth' = [auth EXCEPT !.loading = TRUE, !.error = FALSE,
                            !.pending = auth.authState]
    /\ UNCHANGED <<backend, page, graphView, chat>>

\* A catch block of handleSignIn that lets the user in.
SignInFailedLetsIn ==
    /\ auth.pending = "signIn"
    /\ auth' = [auth EXCEPT !.pending = "none", !.authState = "authenticated",
                            !.error = TRUE, !.loading = FALSE, !.last = "failed"]
    /\ UNCHANGED <<backend, page, graphView, chat>>

\* handleSignIn: signIn() threw.
SignInFailed ==
    /\ auth.pending = "signIn"
    /\ auth' = [auth EXCEPT !.pending = "none", !.error = TRUE, !.loading = FALSE,
                            !.last = "failed"]
    /\ UNCHANGED <<backend, page, graphView, chat>>

\* handleSignIn: signIn() resolved; Amplify is configured in that case.
SignInOk ==
    /\ auth.pending = "signIn" /\ auth.pool = "yes"
    /\ auth' = [auth EXCEPT !.pending = "none", !.authState = "authenticated",
                            !.loading = FALSE, !.via = "signIn", !.last = "ok"]
    /\ UNCHANGED <<backend, page, graphView, chat>>

\* handleSignUp: signUp() threw.
SignUpFailed ==
    /\ auth.pending = "signUp"
    /\ auth' = [auth EXCEPT !.pending = "none", !.error = TRUE, !.loading = FALSE,
                            !.last = "failed"]
    /\ UNCHANGED <<backend, page, graphView, chat>>

\* handleSignUp: signUp() resolved.
SignUpOk ==
    /\ auth.pending = "signUp" /\ auth.pool = "yes"
    /\ auth' = [auth EXCEPT !.pending = "none", !.authState = "confirmSignUp",
                            !.loading = FALSE, !.last = "ok"]
    /\ UNCHANGED <<backend, page, graphView, chat>>

\* handleConfirmSignUp: confirmSignUp() threw, or the signIn() after it threw.
ConfirmFailed ==
    /\ auth.pending \in {"confirmSignUp", "confirmedSignIn"}
    /\ auth' = [auth EXCEPT !.pending = "none", !.error = TRUE, !.loading = FALSE,
                            !.last = "failed"]
    /\ UNCHANGED <<backend, page, graphView, chat>>

\* handleConfirmSignUp: confirmSignUp() resolved, signIn() is awaited.
ConfirmOk ==
    /\ auth.pending = "confirmSignUp" /\ auth.pool = "yes"
    /\ auth' = [auth EXCEPT !.pending = "confirmedSignIn"]
    /\ UNCHANGED <<backend, page, graphView, chat>>

\* handleConfirmSignUp: the signIn() after the confirmation resolved.
ConfirmedSignInOk ==
    /\ auth.pending = "confirmedSignIn"
    /\ auth' = [auth EXCEPT !.pending = "none", !.authState = "authenticated",
                            !.loading = FALSE, !.via = "confirmSignUp+signIn",
                            !.last = "ok"]
    /\ UNCHANGED <<backend, page, graphView, chat>>

\* handleSignOut up to its await: the Sign Out link of the chat page.
SignOutPressed ==
    /\ ChatRendered /\ ~auth.signingOut
    /\ auth' = [auth EXCEPT !.signingOut = TRUE]
    /\ UNCHANGED <<backend, page, graphView, chat>>

\* handleSignOut: signOut() resolved, or threw (console.error only).
SignedOut(ok) ==
    /\ auth.signingOut
    /\ auth' = IF ok
               THEN [auth EXCEPT !.signingOut = FALSE, !.authState = "signIn",
                                 !.email = "", !.password = "", !.via = "none"]
               ELSE [auth EXCEPT !.signingOut = FALSE]
    /\ UNCHANGED <<backend, page, graphView, chat>>

AuthNext ==
    \/ \E hasPool \in BOOLEAN : ConfigLoaded(hasPool)
    \/ ConfigFailed
    \/ \E signedIn \in BOOLEAN : CurrentUserChecked(signedIn)
    \/ \E e \in Typed, pw \in Typed : CredentialsTyped(e, pw)
    \/ \E to \in {"signIn", "signUp"} : FormSwitched(to)
    \/ ErrorDismissed
    \/ PrimaryPressed
    \/ SignInFailed
    \/ SignInOk
    \/ SignUpFailed
    \/ SignUpOk
    \/ ConfirmFailed
    \/ ConfirmOk
    \/ ConfirmedSignInOk
    \/ SignOutPressed
    \/ \E ok \in BOOLEAN : SignedOut(ok)

\* App from its mount on; the outcomes of loadConfig and of the Amplify calls
\* are inputs.
AuthSpec == Init /\ [][AuthNext]_vars

\* C23: the chat page is rendered only once loadConfig has answered and
\* initializeApp has ended; with a user pool, authState becomes 'authenticated'
\* only in the step in which getCurrentUser, signIn, or the signIn that follows
\* confirmSignUp succeeds; and the step in which signIn, signUp or confirmSignUp
\* fails leaves authState as it was, sets the error and sets loading to false.
C23_AuthenticationGate ==
    /\ [](ChatRendered => auth.pool # "unknown" /\ auth.pending = "none")
    /\ []((ChatRendered /\ auth.pool = "yes") =>
              auth.via \in {"getCurrentUser", "signIn", "confirmSignUp+signIn"})
    /\ [][(/\ auth.pool = "yes" \/ auth'.pool = "yes"
           /\ auth.authState # "authenticated"
           /\ auth'.authState = "authenticated") =>
              /\ auth.pending \in {"getCurrentUser", "signIn", "confirmedSignIn"}
              /\ auth'.pending = "none"
              /\ auth'.last # "failed" \/ auth.pending = "getCurrentUser"]_vars
    /\ [][(/\ auth.pending \in {"signIn", "signUp", "confirmSignUp", "confirmedSignIn"}
           /\ auth'.pending = "none" /\ auth'.last = "failed") =>
              /\ auth'.authState = auth.authState
              /\ auth'.error /\ ~auth'.loading]_vars

\* C23 witness: with a user pool, handleConfirmSignUp has failed and left the
\* confirmation form with its error.
C23_Witness ==
    /\ auth.pool = "yes" /\ auth.authState = "confirmSignUp" /\ auth.configLoaded
    /\ auth.last = "failed" /\ auth.error /\ ~auth.loading
    /\ auth.pending = "none" /\ ~ChatRendered

\* -------------------------------------------------------- GraphVisualization

\* Calls of fetchGraphData in one behaviour.
MaxFetches == 4

\* The tenants the page passes as the tenantId prop.
GraphTenants == {"default", "tenant7351", "tenant735165"}

\* fetchGraphData up to its await, called by a render whose tenantId prop is t.
fetchGraphData(g, t) ==
    [g EXCEPT !.loading = TRUE, !.error = FALSE,
              !.requests = @ \cup {[tenant |-> t, n |-> g.issued + 1]},
              !.issued = @ + 1]

\* The effect on [apiUrl, tenantId] after the first render.
GraphMounted ==
    /\ ~graphView.mounted
    /\ graphView' = fetchGraphData([graphView EXCEPT !.mounted = TRUE],
                                   graphView.tenantId)
    /\ UNCHANGED <<backend, page, auth, chat>>

\* Select onChange of the page: setTenantId(t) and refresh() of the component as
\* it was last rendered, then the effect on [apiUrl, tenantId] of the new render.
GraphTenantChanged(t) ==
    /\ graphView.mounted /\ t # graphView.tenantId
    /\ graphView.issued + 2 <= MaxFetches
    /\ graphView' = fetchGraphData(
                        [fetchGraphData(graphView, graphView.tenantId)
                            EXCEPT !.tenantId = t], t)
    /\ UNCHANGED <<backend, page, auth, chat>>

\* The Refresh and Retry buttons of the component.
GraphRefreshClicked ==
    /\ graphView.mounted /\ ~graphView.loading
    /\ graphView.issued < MaxFetches
    /\ graphView' = fetchGraphData(graphView, graphView.tenantId)
    /\ UNCHANGED <<backend, page, auth, chat>>

\* fetchGraphData after its await, res.ok: setData(graphData), loading off.
GraphDataArrived(r) ==
    /\ r \in graphView.requests
    /\ graphView' = [graphView EXCEPT !.data = r.tenant, !.loading = FALSE,
                                      !.requests = @ \ {r}]
    /\ UNCHANGED <<backend, page, auth, chat>>

\* fetchGraphData after its await, the request threw or !res.ok.
GraphFetchFailed(r) ==
    /\ r \in graphView.requests
    /\ graphView' = [graphView EXCEPT !.error = TRUE, !.loading = FALSE,
                                      !.requests = @ \ {r}]
    /\ UNCHANGED <<backend, page, auth, chat>>

GraphNext ==
    \/ GraphMounted
    \/ \E t \in GraphTenants : GraphTenantChanged(t)
    \/ GraphRefreshClicked
    \/ \E r \in graphView.requests : GraphDataArrived(r)
    \/ \E r \in graphView.requests : GraphFetchFailed(r)

\* The component under tenant changes of the page; the responses come in any order.
GraphSpec == Init /\ [][GraphNext]_vars

\* C29: once no /graph-visualization request is outstanding and the last one to
\* end has not failed, the data is the response to a request made for the
\* current tenantId prop.
C29_GraphOfCurrentTenant ==
    (/\ graphView.mounted /\ graphView.requests = {} /\ ~graphView.error) =>
        graphView.data = graphView.tenantId

\* --------------------------------------------------------------- ChatProvider

\* Messages added in one behaviour of the provider.
MaxAdded == 3

\* The texts of the messages.
Contents == {"q", "a"}

\* getItem gives null: nothing is stored under the key.
NoItem == [present |-> FALSE, value |-> <<>>]

\* A timestamp that is a Date, and one that is a string.
DateOf(ms) == [type |-> "Date", ms |-> ms]
StringOf(text) == [type |-> "string", text |-> text]

\* Date.prototype.toJSON for the instants of the model: the ISO string.
ToISOString(ms) ==
    "1970-01-01T00:00:00.00" \o
        (CASE ms = 0 -> "0" [] ms = 1 -> "1" [] ms = 2 -> "2" [] ms = 3 -> "3"
           [] ms = 4 -> "4" [] ms = 5 -> "5" [] ms = 6 -> "6" [] ms = 7 -> "7"
           [] ms = 8 -> "8" [] ms = 9 -> "9") \o "Z"

\* new Date(isoString): the instant the string names.
DateParse(iso) == CHOOSE ms \in 0..9 : ToISOString(ms) = iso

\* JSON.stringify(messages), as the value JSON.parse gives back for it: the
\* Date of each message has become its ISO string.
Serialize(messages) ==
    [i \in DOMAIN messages |->
        [role |-> messages[i].role, content |-> messages[i].content,
         timestamp |-> StringOf(ToISOString(messages[i].timestamp.ms))]]

\* An initializer that leaves the timestamps as JSON.parse gave them.
LoadWithoutDates(item) ==
    IF ~item.present THEN <<>> ELSE item.value

\* The useState initializer: getItem, JSON.parse, timestamps back to Dates; an
\* absent item gives the empty list.
Load(item) ==
    IF ~item.present THEN <<>>
    ELSE [i \in DOMAIN item.value |->
            [role |-> item.value[i].role, content |-> item.value[i].content,
             timestamp |-> DateOf(DateParse(item.value[i].timestamp.text))]]

\* addMessage of a message made with timestamp: new Date().
addMessage(role, content) ==
    /\ chat.clock <= MaxAdded
    /\ chat' = [chat EXCEPT
            !.messages = Append(@, [role |-> role, content |-> content,
                                    timestamp |-> DateOf(chat.clock)]),
            !.clock = @ + 1, !.dirty = TRUE]
    /\ UNCHANGED <<backend, page, auth, graphView>>

\* clearMessages: setMessages([]) and removeItem.
clearMessages ==
    /\ chat' = [chat EXCEPT !.messages = <<>>, !.storage = NoItem, !.dirty = TRUE]
    /\ UNCHANGED <<backend, page, auth, graphView>>

\* The effect on [messages]: setItem('graphrag-demo-chat', JSON.stringify(messages)).
SaveEffect ==
    /\ chat.dirty
    /\ chat' = [chat EXCEPT !.storage = [present |-> TRUE, value |-> Serialize(chat.messages)],
                            !.dirty = FALSE]
    /\ UNCHANGED <<backend, page, auth, graphView>>

\* The page is loaded again: a new ChatProvider is initialised from the storage.
ProviderInitialised ==
    /\ chat' = [chat EXCEPT !.messages = Load(chat.storage), !.dirty = TRUE,
                            !.restored = chat.storage.present]
    /\ UNCHANGED <<backend, page, auth, graphView>>

ChatNext ==
    \/ \E role \in {"user", "assistant"}, content \in Contents : addMessage(role, content)
    \/ clearMessages
    \/ SaveEffect
    \/ ProviderInitialised

ChatSpec == Init /\ [][ChatNext]_vars

\* C30: once the save effect has run, the stored value is the serialization of
\* the message list and a provider initialised from it holds the same messages in
\* the same order with Dates for timestamps; and whenever the list is empty, as
\* after clearMessages, a provider initialised from the storage holds no messages.
C30_ChatHistoryRoundTrip ==
    /\ ~chat.dirty =>
          /\ chat.storage.present
          /\ chat.storage.value = Serialize(chat.messages)
          /\ Load(chat.storage) = chat.messages
          /\ \A i \in DOMAIN chat.messages :
                Load(chat.storage)[i].timestamp.type = "Date"
    /\ chat.messages = <<>> => Load(chat.storage) = <<>>

\* C30 witness: a provider initialised from a stored list holds three messages
\* and its save effect has stored them.
C30_Witness ==
    /\ chat.restored /\ ~chat.dirty
    /\ Len(chat.messages) = 3
    /\ chat.storage.value = Serialize(chat.messages)

====
